---- MODULE Spec2Model ----
(***************************************************************************)
(* Model of the Notion -> Slack reminder job of src/reminders.js.          *)
(*                                                                         *)
(* The file holds several variants of one linear pipeline                  *)
(*   query -> filter -> group -> format -> channel post -> DMs -> summary. *)
(* Three of them are modelled, selected by the variable `variant`:         *)
(*   "main"        lines   1-235  webhook (optional) + DMs to U.../D...    *)
(*   "channelDm"   lines 322-542  webhook (required) + DMs to users        *)
(*   "webhookOnly" lines 544-699  webhook (required), server-side filter   *)
(* One run of the process is one behaviour: the environment and the store  *)
(* are fixed in the initial state, every awaited call is two steps: the    *)
(* call is issued, then its promise settles.                               *)
(***************************************************************************)
EXTENDS Integers, Sequences, FiniteSets, Bags, TLC

VARIABLES
    variant,          \* which script runs
    env,              \* process.env: which keys are set, POST_WHEN_EMPTY
    DM_TARGETS,       \* parsed SLACK_DM_USER_IDS
    tz,               \* sign of the local UTC offset of the process
    statusType,       \* type of the database's Status property
    db,               \* the store's pages whose date lies in the window, ascending
    pc,               \* position of the run
    items,            \* result of fetchDueItems
    message,          \* result of formatDigest: a sequence of lines
    postedToChannel,  \* main: return value of postToSlackWebhook
    dmsSent,          \* main: counter of completed dmTarget calls
    idx,              \* position of the DM loop in DM_TARGETS (1-based)
    dmChannelId,      \* id returned by conversations.open for the current target
    calls,            \* outbound delivery calls made so far, in order
    delays,           \* the completed pacing sleeps, each with its duration in ms
    exitCode,         \* process exit status, -1 while running
    stderr,           \* messages written to the error stream
    stdout,           \* lines written to the log stream
    trace             \* the awaited network calls: an event when one is issued
                      \* and one when its promise settles

vars == <<variant, env, DM_TARGETS, tz, statusType, db, pc, items, message, postedToChannel,
          dmsSent, idx, dmChannelId, calls, delays, exitCode, stderr, stdout,
          trace>>

-----------------------------------------------------------------------------
(* Bounds of the model *)

MaxTargets == 3
MaxRecords == 2
MaxItems == 3

-----------------------------------------------------------------------------
(* Configuration constants *)

LOOKAHEAD_DAYS == 7
DONE_STATUS_NAME == "Done"
PACING_MS == 1100

Variants == {"main", "channelDm", "webhookOnly"}

REQUIRED_ENVS(v) ==
    IF v = "main" THEN <<"NOTION_TOKEN", "NOTION_DATABASE_ID">>
    ELSE <<"NOTION_TOKEN", "NOTION_DATABASE_ID", "SLACK_WEBHOOK_URL">>

\* const slack = SLACK_BOT_TOKEN ? new SlackWebClient(...) : null
slack(e) == e.SLACK_BOT_TOKEN

-----------------------------------------------------------------------------
(* Pages and their properties.  A property is [type, v]; type "none" is an   *)
(* absent property.  A date value is [day, time]: a date-only string has     *)
(* time "none", a date-time near the start/end of a UTC day "early"/"late".  *)

Null == [day |-> 0, time |-> "null"]

Prop(t, v) == [type |-> t, v |-> v]

Page(title, due, st, status, type, environment) ==
    [Name        |-> Prop("title", title),
     NextDue     |-> Prop("date", due),
     Status      |-> Prop(st, status),
     Type        |-> Prop("select", type),
     Environment |-> Prop("select", environment)]

getTitle(page) ==
    IF page.Name.type # "title" THEN "(Untitled)"
    ELSE IF page.Name.v = "" THEN "(Untitled)" ELSE page.Name.v

getDate(prop) ==
    IF prop.type = "none" THEN Null
    ELSE IF prop.type = "date" THEN prop.v
    ELSE Null

getSelectName(prop) ==
    IF prop.type = "none" THEN ""
    ELSE IF prop.type = "select" THEN prop.v
    ELSE ""

getStatusName_SelectOnly(prop) ==
    IF prop.type = "none" THEN ""
    ELSE IF prop.type = "select" THEN prop.v
    ELSE ""

getStatusName(prop) ==
    IF prop.type = "none" THEN ""
    ELSE IF prop.type = "select" THEN prop.v
    ELSE IF prop.type = "status" THEN prop.v
    ELSE ""

\* dayjs(due).format("YYYY-MM-DD"): the calendar day of `due` in local time.
\* A date-only string is parsed as local midnight; a date-time is an instant.
LocalDay(due, offset) ==
    IF due.time = "late" /\ offset > 0 THEN due.day + 1
    ELSE IF due.time = "early" /\ offset < 0 THEN due.day - 1
    ELSE due.day

DueKey(page, offset) ==
    LET due == getDate(page.NextDue)
    IN  IF due = Null THEN <<"No due date">>
        ELSE <<"YYYY-MM-DD", LocalDay(due, offset)>>

-----------------------------------------------------------------------------
(* groupByDueDate: a Map in insertion order, as a sequence of [key, pages]   *)

GroupIndex(groups, key) ==
    IF \E j \in 1..Len(groups) : groups[j].key = key
    THEN CHOOSE j \in 1..Len(groups) : groups[j].key = key
    ELSE 0

GroupPush_Overwrite(groups, key, p) ==
    LET j == GroupIndex(groups, key)
    IN  IF j = 0
        THEN Append(groups, [key |-> key, pages |-> <<p>>])
        ELSE [groups EXCEPT ![j].pages = <<p>>]

GroupPush_Front(groups, key, p) ==
    LET j == GroupIndex(groups, key)
    IN  IF j = 0
        THEN <<[key |-> key, pages |-> <<p>>]>> \o groups
        ELSE [groups EXCEPT ![j].pages = Append(@, p)]

GroupPush(groups, key, p) ==
    LET j == GroupIndex(groups, key)
    IN  IF j = 0
        THEN Append(groups, [key |-> key, pages |-> <<p>>])
        ELSE [groups EXCEPT ![j].pages = Append(@, p)]

RECURSIVE GroupLoop(_, _, _)
GroupLoop(its, n, offset) ==
    IF n = 0 THEN <<>>
    ELSE GroupPush(GroupLoop(its, n - 1, offset), DueKey(its[n], offset), its[n])

groupByDueDate(its, offset) == GroupLoop(its, Len(its), offset)

-----------------------------------------------------------------------------
(* formatDigest: the message as the sequence of its "\n"-joined lines        *)

Line(kind, key, prefix, title, status) ==
    [kind |-> kind, key |-> key, prefix |-> prefix, title |-> title, status |-> status]

HeaderLine == Line("header", <<"days", LOOKAHEAD_DAYS>>, <<>>, "", "")
NothingLine == Line("nothing", <<"days", LOOKAHEAD_DAYS>>, <<>>, "", "")
GreetingLine == Line("greeting", <<>>, <<>>, "", "")
DateLine(key) == Line("date", key, <<>>, "", "")

NonEmpty(s) == s # ""

\* [type, env].filter(Boolean) in main; the other variants show the type only
PrefixBits(v, p) ==
    IF v = "main"
    THEN SelectSeq(<<getSelectName(p.Type), getSelectName(p.Environment)>>, NonEmpty)
    ELSE SelectSeq(<<getSelectName(p.Type)>>, NonEmpty)

\* the webhook-only variant reads the status with getSelect
StatusOf(v, p) ==
    IF v = "webhookOnly" THEN getSelectName(p.Status) ELSE getStatusName(p.Status)

ItemLine(v, p) == Line("item", <<>>, PrefixBits(v, p), getTitle(p), StatusOf(v, p))

RECURSIVE ItemLines(_, _, _)
ItemLines(v, pages, n) ==
    IF n = 0 THEN <<>> ELSE Append(ItemLines(v, pages, n - 1), ItemLine(v, pages[n]))

RECURSIVE GroupLines(_, _, _)
GroupLines(v, groups, n) ==
    IF n = 0 THEN <<>>
    ELSE GroupLines(v, groups, n - 1)
         \o <<DateLine(groups[n].key)>>
         \o ItemLines(v, groups[n].pages, Len(groups[n].pages))

formatDigest(v, its, offset) ==
    IF Len(its) = 0 THEN <<HeaderLine, NothingLine>>
    ELSE LET grouped == groupByDueDate(its, offset)
         IN  <<HeaderLine>> \o GroupLines(v, grouped, Len(grouped))

-----------------------------------------------------------------------------
(* The record store: notion.databases.query                                  *)

\* The variants that filter in the query send { select: { does_not_equal } };
\* the store rejects a select filter on a property of another type.
QueryAccepted(v, st) == v = "webhookOnly" => st = "select"

NotDoneSelect(p) == p.Status.v # DONE_STATUS_NAME

QueryResults(v, pages) ==
    IF v = "webhookOnly" THEN SelectSeq(pages, NotDoneSelect) ELSE pages

NotDone(p) == getStatusName(p.Status) # DONE_STATUS_NAME

\* what fetchDueItems returns from the response
fetchDueItems(v, results) ==
    IF v = "webhookOnly" THEN results ELSE SelectSeq(results, NotDone)

-----------------------------------------------------------------------------
(* The run *)

Config == <<variant, env, DM_TARGETS, tz, statusType, db>>

\* one outbound delivery call: target 0 is the channel, target k the k-th DM
\* target; ret is the conversation id an open call answered with (<<>>: none)
Call(op, target, to, text, ok, ret) ==
    [op |-> op, target |-> target, to |-> to, text |-> text, ok |-> ok, ret |-> ret]

Fail_Continue(msg) ==
    /\ stderr' = Append(stderr, msg)
    /\ pc' = IF pc \in {"dm", "dmPost"} THEN "pace" ELSE "exited"
    /\ exitCode' = IF pc \in {"dm", "dmPost"} THEN exitCode ELSE 1

Fail_ExitZero(msg) ==
    /\ pc' = "exited"
    /\ exitCode' = 0
    /\ stderr' = Append(stderr, msg)

\* a rejected promise reaches main().catch: log the message, process.exit(1);
\* a throw at module level ends the process with status 1 as well
Fail(msg) ==
    /\ pc' = "exited"
    /\ exitCode' = 1
    /\ stderr' = Append(stderr, msg)

\* the required keys that are not set, in the order of the check
Missing(v, e) ==
    LET Unset(k) == ~e[k]
    IN  SelectSeq(REQUIRED_ENVS(v), Unset)

startsWith(id, prefix) == id[1] = prefix

HasDue == Len(items) > 0

ChannelGate_DueOnly == HasDue

ChannelGate == HasDue \/ env.POST_WHEN_EMPTY

Target == DM_TARGETS[idx]

\* the conversation id conversations.open answers with
OpenedIds == {<<"D", 9>>}

Event(ev, op, target, ok) == [ev |-> ev, op |-> op, target |-> target, ok |-> ok]

\* the calls that were issued and have not settled
InFlight == {i \in 1..Len(trace) :
                /\ trace[i].ev = "issue"
                /\ \A j \in (i + 1)..Len(trace) :
                      ~(trace[j].ev = "return" /\ trace[j].op = trace[i].op
                        /\ trace[j].target = trace[i].target)}

Idle_NoAwait == TRUE

\* every call is awaited: the run goes on only when nothing is in flight
Idle == InFlight = {}

\* the run is suspended in `await` on the call (op, target)
Awaiting(op, target) ==
    /\ trace # <<>>
    /\ trace[Len(trace)] = Event("issue", op, target, TRUE)

Issued(op, target) == trace' = Append(trace, Event("issue", op, target, TRUE))

Settled(op, target, ok) == trace' = Append(trace, Event("return", op, target, ok))

Startup ==
    /\ pc = "start"
    /\ Idle
    /\ Missing(variant, env) = <<>>
    /\ pc' = "fetch"
    /\ UNCHANGED <<Config, trace, items, message, postedToChannel, dmsSent, idx,
                   dmChannelId, calls, delays, exitCode, stderr, stdout>>

StartupFail ==
    /\ pc = "start"
    /\ Idle
    /\ Missing(variant, env) # <<>>
    /\ Fail(<<"Missing required env var", Head(Missing(variant, env))>>)
    /\ UNCHANGED <<Config, trace, items, message, postedToChannel, dmsSent, idx,
                   dmChannelId, calls, delays, stdout>>

FetchDueItems ==
    /\ pc = "fetch"
    /\ Awaiting("query", 0)
    /\ Settled("query", 0, TRUE)
    /\ QueryAccepted(variant, statusType)
    /\ items' = fetchDueItems(variant, QueryResults(variant, db))
    /\ message' = IF variant = "main" THEN formatDigest(variant, items', tz) ELSE message
    /\ pc' = "channel"
    /\ UNCHANGED <<Config, postedToChannel, dmsSent, idx, dmChannelId, calls,
                   delays, exitCode, stderr, stdout>>

FetchFail ==
    /\ pc = "fetch"
    /\ Awaiting("query", 0)
    /\ Settled("query", 0, FALSE)
    /\ Fail(<<"query failed">>)
    /\ UNCHANGED <<Config, items, message, postedToChannel, dmsSent, idx,
                   dmChannelId, calls, delays, stdout>>

\* the text the channel receives
ChannelText ==
    IF variant = "main" THEN message ELSE formatDigest(variant, items, tz)

ChannelPost ==
    /\ pc = "channel"
    /\ Awaiting("webhook", 0)
    /\ Settled("webhook", 0, TRUE)
    /\ ChannelGate
    /\ env.SLACK_WEBHOOK_URL
    /\ message' = ChannelText
    /\ calls' = Append(calls, Call("webhook", 0, <<"webhook">>, ChannelText, TRUE, <<>>))
    /\ postedToChannel' = IF variant = "main" THEN TRUE ELSE postedToChannel
    /\ pc' = IF variant = "webhookOnly" THEN "summary" ELSE "dmGate"
    /\ UNCHANGED <<Config, items, dmsSent, idx, dmChannelId, delays, exitCode,
                   stderr, stdout>>

ChannelPostFail ==
    /\ pc = "channel"
    /\ Awaiting("webhook", 0)
    /\ Settled("webhook", 0, FALSE)
    /\ ChannelGate
    /\ env.SLACK_WEBHOOK_URL
    /\ message' = ChannelText
    /\ calls' = Append(calls, Call("webhook", 0, <<"webhook">>, ChannelText, FALSE, <<>>))
    /\ Fail(<<"Slack webhook failed">>)
    /\ UNCHANGED <<Config, items, postedToChannel, dmsSent, idx, dmChannelId,
                   delays, stdout>>

Log(kind, posted, dms) ==
    [kind |-> kind, dueCount |-> Len(items), channelPosted |-> posted, dms |-> dms]

ChannelSkip ==
    /\ pc = "channel"
    /\ Idle
    /\ ~(ChannelGate /\ env.SLACK_WEBHOOK_URL)
    /\ postedToChannel' = FALSE
    /\ stdout' = IF variant = "main" THEN stdout
                 ELSE Append(stdout, Log("Not posting", FALSE, <<>>))
    /\ pc' = IF variant = "webhookOnly" THEN "exited" ELSE "dmGate"
    /\ exitCode' = IF variant = "webhookOnly" THEN 0 ELSE exitCode
    /\ UNCHANGED <<Config, trace, items, message, dmsSent, idx, dmChannelId, calls,
                   delays, stderr>>

DmGated_NoDueCheck == Len(DM_TARGETS) > 0

\* DMs only when there are due items and targets
DmGated == HasDue /\ Len(DM_TARGETS) > 0

\* the text the DM recipients receive
DmText ==
    IF variant = "channelDm"
    THEN <<GreetingLine>> \o formatDigest(variant, items, tz)
    ELSE message

DmGate ==
    /\ pc = "dmGate"
    /\ Idle
    /\ DmGated
    /\ slack(env)
    /\ message' = DmText
    /\ idx' = 1
    /\ pc' = "dm"
    /\ UNCHANGED <<Config, trace, items, postedToChannel, dmsSent, dmChannelId, calls,
                   delays, exitCode, stderr, stdout>>

DmConfigError ==
    /\ pc = "dmGate"
    /\ Idle
    /\ variant = "main"
    /\ DmGated
    /\ ~slack(env)
    /\ Fail(<<"SLACK_DM_USER_IDS is set but SLACK_BOT_TOKEN is missing.">>)
    /\ UNCHANGED <<Config, trace, items, message, postedToChannel, dmsSent, idx,
                   dmChannelId, calls, delays, stdout>>

DmWarnSkip ==
    /\ pc = "dmGate"
    /\ Idle
    /\ variant = "channelDm"
    /\ Len(DM_TARGETS) > 0
    /\ ~slack(env)
    /\ stderr' = Append(stderr, <<"SLACK_DM_USER_IDS is set but SLACK_BOT_TOKEN is missing. Skipping DMs.">>)
    /\ pc' = "summary"
    /\ UNCHANGED <<Config, trace, items, message, postedToChannel, dmsSent, idx,
                   dmChannelId, calls, delays, exitCode, stdout>>

DmSkip ==
    /\ pc = "dmGate"
    /\ Idle
    /\ ~DmGated
    /\ variant = "channelDm" /\ Len(DM_TARGETS) > 0 => slack(env)
    /\ stdout' = IF variant = "channelDm" /\ Len(DM_TARGETS) > 0
                 THEN Append(stdout, Log("No due items; skipping DMs.", FALSE, <<>>))
                 ELSE stdout
    /\ pc' = "summary"
    /\ UNCHANGED <<Config, trace, items, message, postedToChannel, dmsSent, idx,
                   dmChannelId, calls, delays, exitCode, stderr>>

\* dmTarget posts directly to a D... id; dmUser of channelDm opens for every id
PostsDirectly(id) == variant = "main" /\ startsWith(id, "D")

OpensFirst(id) == variant = "channelDm" \/ startsWith(id, "U")

Sent == IF variant = "main" THEN dmsSent + 1 ELSE dmsSent

DmDirect ==
    /\ pc = "dm"
    /\ Awaiting("post", idx)
    /\ Settled("post", idx, TRUE)
    /\ slack(env)
    /\ PostsDirectly(Target)
    /\ calls' = Append(calls, Call("post", idx, Target, message, TRUE, <<>>))
    /\ dmsSent' = Sent
    /\ pc' = "pace"
    /\ UNCHANGED <<Config, items, message, postedToChannel, idx, dmChannelId,
                   delays, exitCode, stderr, stdout>>

DmDirectFail ==
    /\ pc = "dm"
    /\ Awaiting("post", idx)
    /\ Settled("post", idx, FALSE)
    /\ slack(env)
    /\ PostsDirectly(Target)
    /\ calls' = Append(calls, Call("post", idx, Target, message, FALSE, <<>>))
    /\ Fail(<<"chat.postMessage failed">>)
    /\ UNCHANGED <<Config, items, message, postedToChannel, dmsSent, idx,
                   dmChannelId, delays, stdout>>

DmOpen ==
    /\ pc = "dm"
    /\ Awaiting("open", idx)
    /\ Settled("open", idx, TRUE)
    /\ slack(env)
    /\ ~PostsDirectly(Target)
    /\ OpensFirst(Target)
    /\ \E id \in OpenedIds :
          /\ dmChannelId' = id
          /\ calls' = Append(calls, Call("open", idx, Target, <<>>, TRUE, id))
    /\ pc' = "dmPost"
    /\ UNCHANGED <<Config, items, message, postedToChannel, dmsSent, idx, delays,
                   exitCode, stderr, stdout>>

\* the call answers without channel.id
DmOpenNoId ==
    /\ pc = "dm"
    /\ Awaiting("open", idx)
    /\ Settled("open", idx, TRUE)
    /\ slack(env)
    /\ ~PostsDirectly(Target)
    /\ OpensFirst(Target)
    /\ calls' = Append(calls, Call("open", idx, Target, <<>>, TRUE, <<>>))
    /\ Fail(<<"Could not open DM with user", Target>>)
    /\ UNCHANGED <<Config, items, message, postedToChannel, dmsSent, idx,
                   dmChannelId, delays, stdout>>

DmOpenFail ==
    /\ pc = "dm"
    /\ Awaiting("open", idx)
    /\ Settled("open", idx, FALSE)
    /\ slack(env)
    /\ ~PostsDirectly(Target)
    /\ OpensFirst(Target)
    /\ calls' = Append(calls, Call("open", idx, Target, <<>>, FALSE, <<>>))
    /\ Fail(<<"conversations.open failed">>)
    /\ UNCHANGED <<Config, items, message, postedToChannel, dmsSent, idx,
                   dmChannelId, delays, stdout>>

DmInvalid ==
    /\ pc = "dm"
    /\ Idle
    /\ slack(env)
    /\ ~PostsDirectly(Target)
    /\ ~OpensFirst(Target)
    /\ Fail(<<"DM target must start with U or D. Got:", Target>>)
    /\ UNCHANGED <<Config, trace, items, message, postedToChannel, dmsSent, idx,
                   dmChannelId, calls, delays, stdout>>

PostChannel_Target == Target

\* the channel of the post that follows an open: the id the open returned
PostChannel == dmChannelId

DmPost ==
    /\ pc = "dmPost"
    /\ Awaiting("post", idx)
    /\ Settled("post", idx, TRUE)
    /\ calls' = Append(calls, Call("post", idx, PostChannel, message, TRUE, <<>>))
    /\ dmsSent' = Sent
    /\ pc' = "pace"
    /\ UNCHANGED <<Config, items, message, postedToChannel, idx, dmChannelId,
                   delays, exitCode, stderr, stdout>>

DmPostFail ==
    /\ pc = "dmPost"
    /\ Awaiting("post", idx)
    /\ Settled("post", idx, FALSE)
    /\ calls' = Append(calls, Call("post", idx, PostChannel, message, FALSE, <<>>))
    /\ Fail(<<"chat.postMessage failed">>)
    /\ UNCHANGED <<Config, items, message, postedToChannel, dmsSent, idx,
                   dmChannelId, delays, stdout>>

\* await new Promise((r) => setTimeout(r, 1100)), then the loop's next round
LoopDone(i) == i >= Len(DM_TARGETS)

Slept_SkipLast(i) == IF LoopDone(i) THEN delays ELSE Append(delays, PACING_MS)

\* the sleep runs in every round of the loop, the last one included
Slept(i) == Append(delays, PACING_MS)

Pace ==
    /\ pc = "pace"
    /\ Idle
    /\ delays' = Slept(idx)
    /\ idx' = idx + 1
    /\ pc' = IF LoopDone(idx) THEN "summary" ELSE "dm"
    /\ UNCHANGED <<Config, trace, items, message, postedToChannel, dmsSent, dmChannelId,
                   calls, exitCode, stderr, stdout>>

SummaryLine ==
    IF variant = "main" THEN Log("Done", postedToChannel, <<"sent", dmsSent>>)
    ELSE IF variant = "channelDm"
    THEN Log("Done", ChannelGate,
             <<IF Len(DM_TARGETS) > 0 THEN "configured" ELSE "not configured">>)
    ELSE Log("Posted", TRUE, <<>>)

Summary ==
    /\ pc = "summary"
    /\ Idle
    /\ stdout' = Append(stdout, SummaryLine)
    /\ exitCode' = 0
    /\ pc' = "exited"
    /\ UNCHANGED <<Config, trace, items, message, postedToChannel, dmsSent, idx,
                   dmChannelId, calls, delays, stderr>>

Unchanged == <<Config, pc, items, message, postedToChannel, dmsSent, idx,
               dmChannelId, calls, delays, exitCode, stderr, stdout>>

\* await notion.databases.query(...)
IssueQuery ==
    /\ pc = "fetch"
    /\ Idle
    /\ Issued("query", 0)
    /\ UNCHANGED Unchanged

\* await fetch(SLACK_WEBHOOK_URL, ...)
IssueWebhook ==
    /\ pc = "channel"
    /\ Idle
    /\ ChannelGate
    /\ env.SLACK_WEBHOOK_URL
    /\ Issued("webhook", 0)
    /\ UNCHANGED Unchanged

\* await slack.chat.postMessage({ channel: targetId, text })
IssueDirect ==
    /\ pc = "dm"
    /\ Idle
    /\ slack(env)
    /\ PostsDirectly(Target)
    /\ Issued("post", idx)
    /\ UNCHANGED Unchanged

\* await slack.conversations.open({ users: userId, return_im: true })
IssueOpen ==
    /\ pc = "dm"
    /\ Idle
    /\ slack(env)
    /\ ~PostsDirectly(Target)
    /\ OpensFirst(Target)
    /\ Issued("open", idx)
    /\ UNCHANGED Unchanged

\* await slack.chat.postMessage({ channel: dmChannelId, text })
IssuePost ==
    /\ pc = "dmPost"
    /\ Idle
    /\ Issued("post", idx)
    /\ UNCHANGED Unchanged

Next ==
    \/ IssueQuery
    \/ IssueWebhook
    \/ IssueDirect
    \/ IssueOpen
    \/ IssuePost
    \/ Startup
    \/ StartupFail
    \/ FetchDueItems
    \/ FetchFail
    \/ ChannelPost
    \/ ChannelPostFail
    \/ ChannelSkip
    \/ DmGate
    \/ DmConfigError
    \/ DmWarnSkip
    \/ DmSkip
    \/ DmDirect
    \/ DmDirectFail
    \/ DmOpen
    \/ DmOpenNoId
    \/ DmOpenFail
    \/ DmInvalid
    \/ DmPost
    \/ DmPostFail
    \/ Pace
    \/ Summary

-----------------------------------------------------------------------------
(* Initial states *)

SeqsUpTo(S, n) == UNION {[1..k -> S] : k \in 0..n}

Envs ==
    [NOTION_TOKEN : BOOLEAN, NOTION_DATABASE_ID : BOOLEAN,
     SLACK_WEBHOOK_URL : BOOLEAN, SLACK_BOT_TOKEN : BOOLEAN,
     POST_WHEN_EMPTY : BOOLEAN]

TargetIds == {<<"U", 1>>, <<"D", 1>>, <<"X", 1>>}

Date(d, t) == [day |-> d, time |-> t]

TimeRank(t) == IF t = "early" THEN 1 ELSE IF t = "late" THEN 2 ELSE 0

\* sorts: [{ property: PROP_NEXT_DUE, direction: "ascending" }]
Ascending(pages) ==
    \A i \in 1..Len(pages) - 1 :
        LET a == pages[i].NextDue.v
            b == pages[i + 1].NextDue.v
        IN  \/ a.day < b.day
            \/ a.day = b.day /\ TimeRank(a.time) <= TimeRank(b.time)

InitRun ==
    /\ pc = "start"
    /\ items = <<>>
    /\ message = <<>>
    /\ postedToChannel = FALSE
    /\ dmsSent = 0
    /\ idx = 0
    /\ dmChannelId = <<>>
    /\ calls = <<>>
    /\ delays = <<>>
    /\ exitCode = -1
    /\ stderr = <<>>
    /\ stdout = <<>>
    /\ trace = <<>>

\* the webhook-only variant reads neither the DM targets nor the bot token
ReadsDmConfig(v, e, targets) ==
    v = "webhookOnly" => targets = <<>> /\ ~e.SLACK_BOT_TOKEN

DeliveryPages(st) == {Page("A", Date(2, "none"), st, s, "", "") : s \in {"Done", "Open"}}

Init ==
    /\ variant \in Variants
    /\ env \in Envs
    /\ DM_TARGETS \in SeqsUpTo(TargetIds, MaxTargets)
    /\ ReadsDmConfig(variant, env, DM_TARGETS)
    /\ tz = 0
    /\ statusType \in {"select", "status"}
    /\ db \in SeqsUpTo(DeliveryPages(statusType), MaxRecords)
    /\ InitRun

Spec == Init /\ [][Next]_vars

-----------------------------------------------------------------------------
(* Runs over richer store contents, with a few configurations *)

E(nt, id, wh, bt, pwe) ==
    [NOTION_TOKEN |-> nt, NOTION_DATABASE_ID |-> id, SLACK_WEBHOOK_URL |-> wh,
     SLACK_BOT_TOKEN |-> bt, POST_WHEN_EMPTY |-> pwe]

DigestConfigs ==
    { <<E(TRUE, TRUE, TRUE, TRUE, TRUE), <<<<"U", 1>>, <<"D", 1>>, <<"X", 1>>>> >>,
      <<E(TRUE, TRUE, TRUE, FALSE, TRUE), << <<"U", 1>> >> >>,
      <<E(FALSE, TRUE, TRUE, FALSE, TRUE), <<>> >>,
      <<E(TRUE, TRUE, FALSE, FALSE, FALSE), <<>> >>,
      <<E(TRUE, TRUE, TRUE, FALSE, FALSE), <<>> >> }

DigestDates == {Date(2, "none"), Date(2, "late"), Date(3, "none")}

DigestPages(st) ==
    {Page(t, d, st, s, "Policy", "Prod") :
        t \in {"A", "B", "C", "D"}, d \in DigestDates, s \in {"Done", "done", "Open"}}

\* the pages of the store are told apart by their titles
TitleAt(i) == <<"A", "B", "C", "D">>[i]

Titled(pages) == \A i \in 1..Len(pages) : pages[i].Name.v = TitleAt(i)

InitDigest ==
    /\ variant \in Variants
    /\ \E c \in DigestConfigs : env = c[1] /\ DM_TARGETS = c[2]
    /\ ReadsDmConfig(variant, env, DM_TARGETS)
    /\ tz \in {0, 1}
    /\ statusType \in {"select", "status", "multi_select"}
    /\ db \in {s \in SeqsUpTo(DigestPages(statusType), MaxRecords) :
                  Titled(s) /\ Ascending(s)}
    /\ InitRun

SpecDigest == InitDigest /\ [][Next]_vars

-----------------------------------------------------------------------------
(* formatDigest alone, over arbitrary item sequences *)

FormatDates == {Null, Date(1, "none"), Date(2, "none"), Date(2, "late")}

FormatPages ==
    {Page(t, d, "select", "Open", "", "") : t \in {"A", "B", "C"}, d \in FormatDates}
    \cup {Page("", Null, "status", "", "Policy", "Prod")}

InitFormat ==
    /\ variant \in Variants
    /\ env = E(TRUE, TRUE, TRUE, TRUE, TRUE)
    /\ DM_TARGETS = <<>>
    /\ tz \in {-1, 0, 1}
    /\ statusType = "select"
    /\ db = <<>>
    /\ pc = "format"
    /\ items \in SeqsUpTo(FormatPages, MaxItems)
    /\ message = <<>>
    /\ postedToChannel = FALSE
    /\ dmsSent = 0
    /\ idx = 0
    /\ dmChannelId = <<>>
    /\ calls = <<>>
    /\ delays = <<>>
    /\ exitCode = -1
    /\ stderr = <<>>
    /\ stdout = <<>>
    /\ trace = <<>>

Format ==
    /\ pc = "format"
    /\ message' = formatDigest(variant, items, tz)
    /\ pc' = "formatted"
    /\ UNCHANGED <<Config, trace, items, postedToChannel, dmsSent, idx, dmChannelId,
                   calls, delays, exitCode, stderr, stdout>>

NextFormat == Format

SpecFormat == InitFormat /\ [][NextFormat]_vars

-----------------------------------------------------------------------------
(* Reading the run's history *)

WebhookCalls == {i \in 1..Len(calls) : calls[i].op = "webhook"}

DmCalls == {i \in 1..Len(calls) : calls[i].op \in {"open", "post"}}

Opens(k) == {i \in 1..Len(calls) : calls[i].op = "open" /\ calls[i].target = k}

Posts(k) == {i \in 1..Len(calls) : calls[i].op = "post" /\ calls[i].target = k}

OkPosts == {i \in 1..Len(calls) : calls[i].op = "post" /\ calls[i].ok}

\* a call that threw, or an open that answered without a conversation id
CallFailed(c) == ~c.ok \/ (c.op = "open" /\ c.ret = <<>>)

Wrote(msg) == \E i \in 1..Len(stderr) : stderr[i][1] = msg

QuerySucceeded ==
    /\ pc \notin {"start", "fetch"}
    /\ ~Wrote("Missing required env var")
    /\ ~Wrote("query failed")

ConfigErrorRaised ==
    /\ exitCode = 1
    /\ \/ Wrote("Missing required env var")
       \/ Wrote("SLACK_DM_USER_IDS is set but SLACK_BOT_TOKEN is missing.")

InvalidTargetRaised == Wrote("DM target must start with U or D. Got:")

-----------------------------------------------------------------------------
(* Claims *)

\* C1 (as stated): in every run whose query succeeds, once the channel step is
\* over exactly one post went to the channel if something is due or postWhenEmpty
\* is set, and none otherwise, for every accepted configuration.
C1_PostIffGated ==
    (QuerySucceeded /\ pc # "channel") =>
        Cardinality(WebhookCalls) = IF Len(items) > 0 \/ env.POST_WHEN_EMPTY THEN 1 ELSE 0

\* C1 (amended): in every run whose query succeeds, once the channel step is over
\* exactly one post call went to the channel if (something is due or postWhenEmpty
\* is set) and a webhook URL is configured, and none otherwise.
C1_PostIffGatedAndWebhook ==
    (QuerySucceeded /\ pc # "channel") =>
        Cardinality(WebhookCalls) =
            IF (Len(items) > 0 \/ env.POST_WHEN_EMPTY) /\ env.SLACK_WEBHOOK_URL
            THEN 1 ELSE 0

C1_Witness ==
    /\ pc = "exited"
    /\ exitCode = 0
    /\ variant = "main"
    /\ ~env.SLACK_WEBHOOK_URL
    /\ Len(items) > 0
    /\ WebhookCalls = {}
    /\ ~env.POST_WHEN_EMPTY

\* C2: a DM call (conversation-open or post) is made only in a run that has a
\* due item, a configured DM target and a bot credential.
C2_DmOnlyWhenGated ==
    DmCalls # {} =>
        /\ Len(items) > 0
        /\ Len(DM_TARGETS) > 0
        /\ env.SLACK_BOT_TOKEN

C2_Witness ==
    /\ pc = "exited"
    /\ Cardinality(DmCalls) >= 2
    /\ Len(items) > 0
    /\ env.SLACK_BOT_TOKEN

\* C3 (as stated): whenever DM targets are configured but the bot credential is
\* missing, the run ends with a non-zero status, whether or not an item is due.
C3_MissingCredentialFails ==
    (pc = "exited" /\ Len(DM_TARGETS) > 0 /\ ~env.SLACK_BOT_TOKEN) => exitCode # 0

\* C4 (as stated): a run that fails with a configuration error has made no
\* delivery call (no channel post, no DM) before failing.
C4_ConfigErrorNoSideEffect ==
    ConfigErrorRaised => calls = <<>>

\* C5 (as stated): a run that sent DMs to n >= 1 targets and ended well has
\* slept exactly n - 1 times.
C5_DelaysBetweenSends ==
    (pc = "exited" /\ exitCode = 0 /\ Cardinality(OkPosts) >= 1) =>
        Len(delays) = Cardinality(OkPosts) - 1

\* C5 (what the code does instead): one pacing delay of 1100 ms follows every
\* successful DM send, the last one included: n sends give n delays (3 targets
\* give exactly 3 delays).
C5_DelayAfterEverySend ==
    /\ pc = "pace" => Len(delays) = Cardinality(OkPosts) - 1
    /\ pc # "pace" => Len(delays) = Cardinality(OkPosts)
    /\ (pc = "exited" /\ exitCode = 0 /\ DmCalls # {}) => Len(delays) = Len(DM_TARGETS)
    /\ \A i \in 1..Len(delays) : delays[i] = 1100

C5_Witness ==
    /\ pc = "exited"
    /\ exitCode = 0
    /\ Len(DM_TARGETS) = 3
    /\ Cardinality(OkPosts) = 3
    /\ delays = <<1100, 1100, 1100>>

\* the k-th DM target has been handled: its dmTarget call returned or threw
Processed(k) == k < idx \/ (k = idx /\ pc \in {"pace", "exited"})

Opened(k) == Processed(k) \/ (k = idx /\ pc = "dmPost")

\* C6: in the main variant, a processed target starting with D gets exactly one
\* post to that id and no open; one starting with U gets exactly one open for
\* that user and then, when the open answered with a conversation id, exactly
\* one post, the next call, to the id it answered with (no post when it
\* answered with none); any other target gets no call and the invalid-target
\* error ends the run.
C6_TargetDispatch ==
    variant = "main" =>
        \A k \in 1..Len(DM_TARGETS) :
            LET id == DM_TARGETS[k]
            IN  IF id[1] = "D"
                THEN /\ Opens(k) = {}
                     /\ Cardinality(Posts(k)) = IF Processed(k) THEN 1 ELSE 0
                     /\ \A i \in Posts(k) : calls[i].to = id
                ELSE IF id[1] = "U"
                THEN /\ Cardinality(Opens(k)) = IF Opened(k) THEN 1 ELSE 0
                     /\ Opens(k) = {} => Posts(k) = {}
                     /\ \A i \in Opens(k) :
                           /\ calls[i].to = id
                           /\ IF calls[i].ret # <<>> /\ Processed(k)
                              THEN /\ Posts(k) = {i + 1}
                                   /\ calls[i + 1].to = calls[i].ret
                              ELSE Posts(k) = {}
                ELSE /\ Opens(k) = {}
                     /\ Posts(k) = {}
                     /\ Processed(k) => (InvalidTargetRaised /\ exitCode = 1)

C6_Witness ==
    /\ variant = "main"
    /\ pc = "exited"
    /\ InvalidTargetRaised
    /\ \E k \in 1..Len(DM_TARGETS) : DM_TARGETS[k][1] = "U" /\ Posts(k) # {}
    /\ \E k \in 1..Len(DM_TARGETS) : DM_TARGETS[k][1] = "D" /\ Posts(k) # {}

\* C7: a failed delivery call (a webhook post or DM post that threw, an open
\* that threw or answered without a conversation id) is the last call of the
\* run, which ends with status 1; an invalid target ends the run the same way;
\* no call is repeated (at most one channel post, one open and one post per
\* target); the targets after the one at which the run failed get no call.
C7_FailureEndsDelivery ==
    /\ \A i \in 1..Len(calls) :
          CallFailed(calls[i]) => (i = Len(calls) /\ pc = "exited" /\ exitCode = 1)
    /\ InvalidTargetRaised => (pc = "exited" /\ exitCode = 1)
    /\ Cardinality(WebhookCalls) <= 1
    /\ \A k \in 1..Len(DM_TARGETS) :
          /\ Cardinality(Posts(k)) <= 1
          /\ Cardinality(Opens(k)) <= 1
          /\ k > idx => (Opens(k) = {} /\ Posts(k) = {})
    /\ \A i \in DmCalls : calls[i].target \in 1..Len(DM_TARGETS)

C7_Witness ==
    /\ pc = "exited"
    /\ exitCode = 1
    /\ Len(calls) >= 3
    /\ CallFailed(calls[Len(calls)])
    /\ calls[Len(calls)].op \in {"open", "post"}
    /\ OkPosts # {}
    /\ idx < Len(DM_TARGETS)

-----------------------------------------------------------------------------
(* Claims about the digest *)

IsItem(l) == l.kind = "item"

IsDate(l) == l.kind = "date"

SentTexts == {calls[i].text : i \in {j \in 1..Len(calls) : calls[j].op \in {"webhook", "post"}}}

Digests == (SentTexts \cup {message}) \ {<<>>}

\* the status label of the n-th page of the store is the done status, where the
\* Status property has one of the two types a status can be read from
LabelledDone(n) == statusType \in {"select", "status"} /\ db[n].Status.v = "Done"

Due == {n \in 1..Len(db) : ~LabelledDone(n)}

\* C8: where the Status property is select-typed or status-typed, no digest that
\* is formed or sent has an item line of a page whose status label is exactly
\* "Done", whether the query filtered (webhook-only variant) or the client did.
C8_DoneNeverSent ==
    statusType \in {"select", "status"} =>
        \A text \in Digests :
            \A j \in 1..Len(text) :
                IsItem(text[j]) =>
                    /\ text[j].status # "Done"
                    /\ \A n \in 1..Len(db) :
                          db[n].Name.v = text[j].title => db[n].Status.v # "Done"

C8_Witness ==
    /\ statusType = "status"
    /\ variant = "main"
    /\ \E n \in 1..Len(db) : db[n].Status.v = "Done"
    /\ \E text \in SentTexts :
          \E j \in 1..Len(text) : IsItem(text[j]) /\ text[j].status = "done"

\* C9: every digest formed or sent has exactly one item line for each page the
\* store returned whose status is not the done status, none twice, and the
\* dueCount of the final summary is that number of item lines; two pages of
\* which one is Done give one item line and dueCount 1.
C9_OneLinePerDueRecord ==
    /\ \A text \in Digests :
          LET lines == SelectSeq(text, IsItem)
          IN  /\ \A a, b \in 1..Len(lines) : a # b => lines[a].title # lines[b].title
              /\ {lines[a].title : a \in 1..Len(lines)} = {db[n].Name.v : n \in Due}
    /\ \A i \in 1..Len(stdout) :
          stdout[i].kind \in {"Done", "Posted"} =>
              /\ stdout[i].dueCount = Cardinality(Due)
              /\ message # <<>> => stdout[i].dueCount = Len(SelectSeq(message, IsItem))

C9_Witness ==
    /\ pc = "exited"
    /\ exitCode = 0
    /\ Len(db) = 2
    /\ Cardinality({n \in 1..Len(db) : db[n].Status.v = "Done"}) = 1
    /\ statusType = "select"
    /\ Len(SelectSeq(message, IsItem)) = 1
    /\ SentTexts # {}
    /\ stdout[Len(stdout)].dueCount = 1

-----------------------------------------------------------------------------
(* Claims about grouping *)

KeyAt(n) == DueKey(items[n], tz)

IsFirst(n) == \A m \in 1..(n - 1) : KeyAt(m) # KeyAt(n)

\* the item lines of the items with key `key` among the first m, in input order
RECURSIVE Members(_, _)
Members(key, m) ==
    IF m = 0 THEN <<>>
    ELSE Members(key, m - 1)
         \o (IF KeyAt(m) = key THEN <<ItemLine(variant, items[m])>> ELSE <<>>)

\* one group per key, in the order in which the keys first occur among the first n
RECURSIVE GroupsInFirstOccurrenceOrder(_)
GroupsInFirstOccurrenceOrder(n) ==
    IF n = 0 THEN <<>>
    ELSE GroupsInFirstOccurrenceOrder(n - 1)
         \o (IF IsFirst(n)
             THEN <<DateLine(KeyAt(n))>> \o Members(KeyAt(n), Len(items))
             ELSE <<>>)

ItemA == Page("A", Date(2, "none"), "select", "Open", "", "")
ItemB == Page("B", Date(1, "none"), "select", "Open", "", "")
ItemC == Page("C", Date(2, "none"), "select", "Open", "", "")

DateLinesOf(text) == SelectSeq(text, IsDate)

DatesAscending(text) ==
    \A a, b \in 1..Len(DateLinesOf(text)) :
        (/\ a < b
         /\ Len(DateLinesOf(text)[a].key) = 2
         /\ Len(DateLinesOf(text)[b].key) = 2)
        => DateLinesOf(text)[a].key[2] < DateLinesOf(text)[b].key[2]

\* C10 (as stated): for [A(01-02), B(01-01), C(01-02)] the group of 01-01 with
\* [B] comes first and then the group of 01-02 with [A, C]; in general the
\* groups come out in ascending order of date.
C10_GroupsAscendingByDate ==
    pc = "formatted" =>
        /\ (items = <<ItemA, ItemB, ItemC>> /\ tz = 0) =>
              message = <<HeaderLine,
                          DateLine(<<"YYYY-MM-DD", 1>>), ItemLine(variant, ItemB),
                          DateLine(<<"YYYY-MM-DD", 2>>), ItemLine(variant, ItemA),
                          ItemLine(variant, ItemC)>>
        /\ DatesAscending(message)

\* C10 (amended): each group's members keep their relative input order and the
\* groups come out in the order in which their keys first occur in the input;
\* for [A(01-02), B(01-01), C(01-02)] that is the group of 01-02 with [A, C],
\* A before C, and then the group of 01-01 with [B]; the groups are ascending
\* by date whenever the keys of the input are.
C10_StableFirstOccurrence ==
    pc = "formatted" =>
        /\ items # <<>> =>
              message = <<HeaderLine>> \o GroupsInFirstOccurrenceOrder(Len(items))
        /\ (items = <<ItemA, ItemB, ItemC>> /\ tz = 0) =>
              message = <<HeaderLine,
                          DateLine(<<"YYYY-MM-DD", 2>>), ItemLine(variant, ItemA),
                          ItemLine(variant, ItemC),
                          DateLine(<<"YYYY-MM-DD", 1>>), ItemLine(variant, ItemB)>>
        /\ (\A m \in 1..(Len(items) - 1) :
               /\ Len(KeyAt(m)) = 2
               /\ Len(KeyAt(m + 1)) = 2
               /\ KeyAt(m)[2] <= KeyAt(m + 1)[2])
           => DatesAscending(message)

C10_Witness ==
    /\ pc = "formatted"
    /\ items = <<ItemA, ItemB, ItemC>>
    /\ tz = 0
    /\ Len(message) = 6
    /\ message[2] = DateLine(<<"YYYY-MM-DD", 2>>)

-----------------------------------------------------------------------------
(* Claims about the end of the run *)

\* a required key is unset, or an awaited call was rejected, or an open
\* answered without a conversation id, or the DM configuration was refused
StepFailed ==
    \/ \E k \in {"NOTION_TOKEN", "NOTION_DATABASE_ID"} : ~env[k]
    \/ variant # "main" /\ ~env.SLACK_WEBHOOK_URL
    \/ \E i \in 1..Len(trace) : trace[i].ev = "return" /\ ~trace[i].ok
    \/ \E i \in 1..Len(calls) : CallFailed(calls[i])
    \/ Wrote("SLACK_DM_USER_IDS is set but SLACK_BOT_TOKEN is missing.")
    \/ InvalidTargetRaised

SummaryLogged == \E i \in 1..Len(stdout) : stdout[i].kind \in {"Done", "Posted"}

FailureMessages ==
    {"Missing required env var", "query failed", "Slack webhook failed",
     "SLACK_DM_USER_IDS is set but SLACK_BOT_TOKEN is missing.",
     "conversations.open failed", "Could not open DM with user",
     "chat.postMessage failed", "DM target must start with U or D. Got:"}

\* C11: a run that has not ended has no exit status and can take a step; a
\* run that ended has status 0 or 1, and status 0 exactly when no step failed
\* (no required key unset, no rejected query or delivery call, no refused DM
\* configuration or target).  With status 0 the query succeeded and every
\* gated-in delivery was made and succeeded; with status 1 the last line of
\* the error stream is the failure's message and no success summary is logged.
C11_ExitZeroIffNoFailure ==
    /\ pc # "exited" => (exitCode = -1 /\ ENABLED Next)
    /\ pc = "exited" =>
          /\ exitCode \in {0, 1}
          /\ (exitCode = 0) <=> ~StepFailed
          /\ InFlight = {}
    /\ exitCode = 0 =>
          /\ \E i \in 1..Len(trace) :
                trace[i] = Event("return", "query", 0, TRUE)
          /\ ((Len(items) > 0 \/ env.POST_WHEN_EMPTY) /\ env.SLACK_WEBHOOK_URL)
                => \E i \in WebhookCalls : calls[i].ok
          /\ (variant # "webhookOnly" /\ Len(items) > 0 /\ env.SLACK_BOT_TOKEN)
                => \A k \in 1..Len(DM_TARGETS) : \E i \in Posts(k) : calls[i].ok
          /\ (variant # "webhookOnly" \/ Len(items) > 0 \/ env.POST_WHEN_EMPTY)
                => SummaryLogged
    /\ exitCode = 1 =>
          /\ stderr # <<>>
          /\ stderr[Len(stderr)][1] \in FailureMessages
          /\ ~SummaryLogged

\* a run that ended with status 1 on a failed delivery after a successful
\* query and channel post
C11_Witness ==
    /\ pc = "exited"
    /\ exitCode = 1
    /\ \E i \in 1..Len(trace) : trace[i] = Event("return", "query", 0, TRUE)
    /\ \E i \in WebhookCalls : calls[i].ok
    /\ \E i \in DmCalls : CallFailed(calls[i])
    /\ stderr # <<>>

-----------------------------------------------------------------------------
(* Claims about the order of the calls *)

Issues == {i \in 1..Len(trace) : trace[i].ev = "issue"}

Returns == {i \in 1..Len(trace) : trace[i].ev = "return"}

IsDelivery(e) == e.op \in {"webhook", "open", "post"}

IsDm(e) == e.op \in {"open", "post"}

\* the place of a call in the fixed order: the query, the channel post, then
\* for each target in list order its open and its post
Rank(e) ==
    IF e.op = "query" THEN 0
    ELSE IF e.op = "webhook" THEN 1
    ELSE IF e.op = "open" THEN 2 * e.target
    ELSE 2 * e.target + 1

\* C12: the calls happen strictly one at a time and in a fixed order: a call
\* is issued only when every earlier call has settled (issue and return events
\* alternate, so at most one call is in flight); the first call is the query
\* and a delivery is issued only after the query returned successfully; the
\* calls are issued in the order query, channel post, then per target in list
\* order its open and its post, none twice; a DM call for a target is issued
\* only after every earlier target of the list got its post.
C12_OneCallAtATimeInOrder ==
    /\ Cardinality({i \in Issues : \A j \in Returns : j < i \/
                       trace[j].op # trace[i].op \/
                       trace[j].target # trace[i].target}) <= 1
    /\ \A i \in 1..Len(trace) :
          /\ (i % 2 = 1) <=> (i \in Issues)
          /\ i \in Returns =>
                (trace[i].op = trace[i - 1].op /\ trace[i].target = trace[i - 1].target)
    /\ trace # <<>> => trace[1] = [ev |-> "issue", op |-> "query", target |-> 0, ok |-> TRUE]
    /\ \A i \in Issues :
          IsDelivery(trace[i]) =>
              \E j \in Returns : j < i /\ trace[j].op = "query" /\ trace[j].ok
    /\ \A i, j \in Issues : i < j => Rank(trace[i]) < Rank(trace[j])
    /\ \A i \in Issues :
          IsDm(trace[i]) =>
              /\ trace[i].target \in 1..Len(DM_TARGETS)
              /\ \A k \in 1..(trace[i].target - 1) :
                    \E j \in Returns :
                        /\ j < i
                        /\ trace[j].op = "post" /\ trace[j].target = k /\ trace[j].ok
    /\ \A i \in 1..Len(calls) :
          IsDm(calls[i]) => calls[i].target \in 1..Len(DM_TARGETS)
    /\ \A i \in 1..Len(calls) :
          \A j \in 1..Len(calls) : i < j => Rank(calls[i]) < Rank(calls[j])

\* the second target's call is in flight after the query, the channel post and
\* the first target's open and post have returned
C12_Witness ==
    /\ Len(trace) >= 9
    /\ trace[Len(trace)].ev = "issue"
    /\ trace[Len(trace)].target = 2
    /\ \E i \in Returns : trace[i].op = "webhook" /\ trace[i].ok
    /\ \E i \in Returns : trace[i].op = "open" /\ trace[i].target = 1
    /\ \E i \in Returns : trace[i].op = "post" /\ trace[i].target = 1

====
